---- MODULE Spec2Model ----
(***************************************************************************)
(* app_spit.c: the SPIT() dialplan application (automated dialer           *)
(* detection).  The module models                                          *)
(*   - the process-wide default parameters and load_config(),              *)
(*   - one invocation of isAutomatedDialer() on a channel: argument        *)
(*     parsing, resource setup, the frame loop, the publication of         *)
(*     SPITSTATUS / SPITCAUSE and the release of the resources (Spec),     *)
(*   - two runs of the loop on the same frames (SpecReplay), the parameter *)
(*     resolution alone (SpecResolve), two calls with reload() running at  *)
(*     the same time (SpecCalls), and load_module() / reload() with each   *)
(*     load_config() call recorded (SpecConfig).                           *)
(* Durations are milliseconds, as in the source.  Strings that the code    *)
(* parses with atoi() are sequences of one-character strings.  A cause     *)
(* string built by sprintf("NAME-%d-%d", a, b) is the tuple <<NAME, a, b>>.*)
(***************************************************************************)
EXTENDS Integers, Sequences, FiniteSets, TLC

VARIABLES
    dfltInitialSilence, dfltGreeting, dfltAfterGreetingSilence,
    dfltTotalAnalysisTime, dfltMinimumWordLength, dfltBetweenWordsSilence,
    dfltMaximumNumberOfWords, dfltSilenceThreshold, dfltMaximumWordLength,
    dfltMaxWaitTimeForFrame,
    module,     \* "unloaded" | "loaded" | "declined": outcome of load_module
    args,       \* the application arguments of the running call (args.arg*)
    p,          \* the parameters the running call resolved (its locals)
    run,        \* the other locals of isAutomatedDialer, and where it stands
    chan,       \* the channel: read format and the two channel variables
    run2,       \* a replay of the same frames (used by SpecReplay only)
    calls,      \* calls running at the same time (used by SpecCalls only)
    lastLoad    \* the last load_config() call (used by SpecConfig only)

dflts == <<dfltInitialSilence, dfltGreeting, dfltAfterGreetingSilence,
           dfltTotalAnalysisTime, dfltMinimumWordLength, dfltBetweenWordsSilence,
           dfltMaximumNumberOfWords, dfltSilenceThreshold, dfltMaximumWordLength,
           dfltMaxWaitTimeForFrame>>

vars == <<dflts, module, args, p, run, chan, run2, calls, lastLoad>>

-----------------------------------------------------------------------------
(* Bounds of the model *)

\* frames one call may read before the model stops following it
MaxFrames == 5

-----------------------------------------------------------------------------
(* Program constants *)

STATE_IN_WORD == 1
STATE_IN_SILENCE == 2
DEFAULT_SAMPLES_PER_MS == 8
\* what ast_dsp_get_threshold_from_settings(THRESHOLD_SILENCE) answers
dsp_threshold_setting == 256

-----------------------------------------------------------------------------
(* atoi(): the leading decimal digits of the string, 0 when there are none *)

DigitChars == {"0", "1", "2", "3", "4", "5", "6", "7", "8", "9"}

DigitVal(c) ==
    CASE c = "0" -> 0 [] c = "1" -> 1 [] c = "2" -> 2 [] c = "3" -> 3
      [] c = "4" -> 4 [] c = "5" -> 5 [] c = "6" -> 6 [] c = "7" -> 7
      [] c = "8" -> 8 [] c = "9" -> 9

RECURSIVE atoiFrom(_, _, _)
atoiFrom(s, i, acc) ==
    IF i > Len(s) \/ s[i] \notin DigitChars
    THEN acc
    ELSE atoiFrom(s, i + 1, acc * 10 + DigitVal(s[i]))

atoi(s) == atoiFrom(s, 1, 0)

ast_strlen_zero(s) == Len(s) = 0

-----------------------------------------------------------------------------
(* The process-wide defaults as one record, and load_config() *)

Dflt ==
    [dfltInitialSilence       |-> dfltInitialSilence,
     dfltGreeting             |-> dfltGreeting,
     dfltAfterGreetingSilence |-> dfltAfterGreetingSilence,
     dfltTotalAnalysisTime    |-> dfltTotalAnalysisTime,
     dfltMinimumWordLength    |-> dfltMinimumWordLength,
     dfltBetweenWordsSilence  |-> dfltBetweenWordsSilence,
     dfltMaximumNumberOfWords |-> dfltMaximumNumberOfWords,
     dfltSilenceThreshold     |-> dfltSilenceThreshold,
     dfltMaximumWordLength    |-> dfltMaximumWordLength,
     dfltMaxWaitTimeForFrame  |-> dfltMaxWaitTimeForFrame]

SetDflt(d) ==
    /\ dfltInitialSilence'       = d.dfltInitialSilence
    /\ dfltGreeting'             = d.dfltGreeting
    /\ dfltAfterGreetingSilence' = d.dfltAfterGreetingSilence
    /\ dfltTotalAnalysisTime'    = d.dfltTotalAnalysisTime
    /\ dfltMinimumWordLength'    = d.dfltMinimumWordLength
    /\ dfltBetweenWordsSilence'  = d.dfltBetweenWordsSilence
    /\ dfltMaximumNumberOfWords' = d.dfltMaximumNumberOfWords
    /\ dfltSilenceThreshold'     = d.dfltSilenceThreshold
    /\ dfltMaximumWordLength'    = d.dfltMaximumWordLength
    /\ dfltMaxWaitTimeForFrame'  = d.dfltMaxWaitTimeForFrame

\* strcasecmp(a, b) = 0 over the names the configurations below use
Lower(s) ==
    CASE s = "General" -> "general"
      [] s = "Total_Analysis_Time" -> "total_analysis_time"
      [] OTHER -> s

strcasecmp0(a, b) == Lower(a) = Lower(b)

\* one variable of the [general] category
ConfigVar(d, var) ==
    IF strcasecmp0(var.name, "initial_silence")
    THEN [d EXCEPT !.dfltInitialSilence = atoi(var.value)]
    ELSE IF strcasecmp0(var.name, "greeting")
    THEN [d EXCEPT !.dfltGreeting = atoi(var.value)]
    ELSE IF strcasecmp0(var.name, "after_greeting_silence")
    THEN [d EXCEPT !.dfltAfterGreetingSilence = atoi(var.value)]
    ELSE IF strcasecmp0(var.name, "silence_threshold")
    THEN [d EXCEPT !.dfltSilenceThreshold = atoi(var.value)]
    ELSE IF strcasecmp0(var.name, "total_analysis_time")
    THEN [d EXCEPT !.dfltTotalAnalysisTime = atoi(var.value)]
    ELSE IF strcasecmp0(var.name, "min_word_length")
    THEN [d EXCEPT !.dfltMinimumWordLength = atoi(var.value)]
    ELSE IF strcasecmp0(var.name, "between_words_silence")
    THEN [d EXCEPT !.dfltBetweenWordsSilence = atoi(var.value)]
    ELSE IF strcasecmp0(var.name, "maximum_number_of_words")
    THEN [d EXCEPT !.dfltMaximumNumberOfWords = atoi(var.value)]
    ELSE IF strcasecmp0(var.name, "maximum_word_length")
    THEN [d EXCEPT !.dfltMaximumWordLength = atoi(var.value)]
    ELSE d      \* unknown keyword: logged, ignored

RECURSIVE ConfigVars(_, _, _)
ConfigVars(d, vs, i) ==
    IF i > Len(vs) THEN d ELSE ConfigVars(ConfigVar(d, vs[i]), vs, i + 1)

\* the categories of the file in order; only [general] is read
RECURSIVE ConfigCategories(_, _, _)
ConfigCategories(d, cfg, i) ==
    IF i > Len(cfg) THEN d
    ELSE ConfigCategories(
            IF strcasecmp0(cfg[i].cat, "general")
            THEN ConfigVars(d, cfg[i].vars, 1) ELSE d,
            cfg, i + 1)

\* The contents spit.conf may have when it is read
CfgSmall ==
    << [cat |-> "general", vars |-> <<
          [name |-> "initial_silence",         value |-> <<"3">>],
          [name |-> "greeting",                value |-> <<"4">>],
          [name |-> "after_greeting_silence",  value |-> <<"2">>],
          [name |-> "total_analysis_time",     value |-> <<"8">>],
          [name |-> "min_word_length",         value |-> <<"1">>],
          [name |-> "between_words_silence",   value |-> <<"1">>],
          [name |-> "maximum_number_of_words", value |-> <<"2">>],
          [name |-> "silence_threshold",       value |-> <<"5", "0", "0">>],
          [name |-> "maximum_word_length",     value |-> <<"3">>] >>] >>

CfgPartial ==
    << [cat |-> "other", vars |-> <<
          [name |-> "greeting",                value |-> <<"9">>] >>],
       [cat |-> "General", vars |-> <<
          [name |-> "Total_Analysis_Time",     value |-> <<"6", "m", "s">>],
          [name |-> "no_such_keyword",         value |-> <<"1">>] >>] >>

ConfigFiles == {CfgSmall, CfgPartial}

\* what ast_config_load("spit.conf", flags) may answer
ConfigLoads(reload) ==
    {[status |-> "missing", cfg |-> <<>>], [status |-> "invalid", cfg |-> <<>>]}
    \cup (IF reload = 1 THEN {[status |-> "unchanged", cfg |-> <<>>]} ELSE {})
    \cup {[status |-> "ok", cfg |-> c] : c \in ConfigFiles}

\* load_config(): the defaults it leaves, and its return value
load_config_dflt(d, ld) ==
    LET d0 == [d EXCEPT !.dfltSilenceThreshold = dsp_threshold_setting]
    IN  IF ld.status = "ok" THEN ConfigCategories(d0, ld.cfg, 1) ELSE d0

load_config_ret(ld) ==
    IF ld.status \in {"missing", "invalid"} THEN -1 ELSE 0

-----------------------------------------------------------------------------
(* Argument parsing and the resolved parameters (lines 201-267) *)

NoArgs ==
    [argInitialSilence |-> <<>>, argGreeting |-> <<>>,
     argAfterGreetingSilence |-> <<>>, argTotalAnalysisTime |-> <<>>,
     argMinimumWordLength |-> <<>>, argBetweenWordsSilence |-> <<>>,
     argMaximumNumberOfWords |-> <<>>, argSilenceThreshold |-> <<>>,
     argMaximumWordLength |-> <<>>]

\* The argument strings a call may be made with
ArgSets ==
    { NoArgs,
      [NoArgs EXCEPT !.argTotalAnalysisTime = <<"4">>],
      [NoArgs EXCEPT !.argBetweenWordsSilence = <<"0">>],
      [NoArgs EXCEPT !.argMaximumWordLength = <<"9">>],
      [NoArgs EXCEPT !.argMinimumWordLength = <<"2">>,
                     !.argMaximumNumberOfWords = <<"1">>],
      [NoArgs EXCEPT !.argInitialSilence = <<"2", "x">>,
                     !.argAfterGreetingSilence = <<"1">>] }

Arg(a, dfl) == IF ~ast_strlen_zero(a) THEN atoi(a) ELSE dfl

Min2(a, b) == IF a > b THEN b ELSE a

\* MaxWaitTimeForFrame without lines 265-267 (betweenWordsSilence)
MaxWaitTimeForFrame_NoBetweenWords(start, q) ==
    Min2(Min2(Min2(Min2(Min2(start,
        q.initialSilence), q.greeting), q.afterGreetingSilence),
        q.totalAnalysisTime), q.minimumWordLength)

\* Find lowest ms value, that will be max wait time for a frame
MaxWaitTimeForFrame(start, q) ==
    Min2(Min2(Min2(Min2(Min2(Min2(start,
        q.initialSilence), q.greeting), q.afterGreetingSilence),
        q.totalAnalysisTime), q.minimumWordLength), q.betweenWordsSilence)

ResolveParams(d, a) ==
    LET q == [initialSilence       |-> Arg(a.argInitialSilence, d.dfltInitialSilence),
              greeting             |-> Arg(a.argGreeting, d.dfltGreeting),
              afterGreetingSilence |-> Arg(a.argAfterGreetingSilence, d.dfltAfterGreetingSilence),
              totalAnalysisTime    |-> Arg(a.argTotalAnalysisTime, d.dfltTotalAnalysisTime),
              minimumWordLength    |-> Arg(a.argMinimumWordLength, d.dfltMinimumWordLength),
              betweenWordsSilence  |-> Arg(a.argBetweenWordsSilence, d.dfltBetweenWordsSilence),
              maximumNumberOfWords |-> Arg(a.argMaximumNumberOfWords, d.dfltMaximumNumberOfWords),
              silenceThreshold     |-> Arg(a.argSilenceThreshold, d.dfltSilenceThreshold),
              maximumWordLength    |-> Arg(a.argMaximumWordLength, d.dfltMaximumWordLength)]
    IN  [initialSilence       |-> q.initialSilence,
         greeting             |-> q.greeting,
         afterGreetingSilence |-> q.afterGreetingSilence,
         totalAnalysisTime    |-> q.totalAnalysisTime,
         minimumWordLength    |-> q.minimumWordLength,
         betweenWordsSilence  |-> q.betweenWordsSilence,
         maximumNumberOfWords |-> q.maximumNumberOfWords,
         silenceThreshold     |-> q.silenceThreshold,
         maximumWordLength    |-> q.maximumWordLength,
         maxWaitTimeForFrame  |-> MaxWaitTimeForFrame(d.dfltMaxWaitTimeForFrame, q)]

NoParams ==
    [initialSilence |-> 0, greeting |-> 0, afterGreetingSilence |-> 0,
     totalAnalysisTime |-> 0, minimumWordLength |-> 0, betweenWordsSilence |-> 0,
     maximumNumberOfWords |-> 0, silenceThreshold |-> 0, maximumWordLength |-> 0,
     maxWaitTimeForFrame |-> 0]

-----------------------------------------------------------------------------
(* Frames: what ast_read() may return *)

\* ast_codec_samples_count(f) of a voice frame
Samples == {4, 8}

\* the signal energy of a voice frame, compared with the silence threshold
Energies == {0, 1000}

\* f->subclass.integer of a DTMF frame: '5' and '#'
Digits == {53, 35}

NoFrame == [frametype |-> "none", samples |-> 0, energy |-> 0, subclass |-> 0]

Frames ==
    [frametype : {"VOICE"}, samples : Samples, energy : Energies, subclass : {0}]
    \cup [frametype : {"NULL", "CNG", "CONTROL"}, samples : {0}, energy : {0}, subclass : {0}]
    \cup [frametype : {"DTMF_BEGIN", "DTMF_END"}, samples : {0}, energy : {0}, subclass : Digits]

\* ast_read(): a frame, or NULL on hangup
Reads == Frames \cup {NoFrame}

\* ast_waitfor(chan, ms): -1 on error, else the milliseconds left of ms
WaitResults(ms) == {-1, 0} \cup (IF ms > 0 THEN {1} ELSE {})

-----------------------------------------------------------------------------
(* The locals of isAutomatedDialer (lines 181-194) *)

NoDsp == [alloc |-> FALSE, freed |-> FALSE, threshold |-> 0, totalsilence |-> 0]

InitRun ==
    [pc |-> "idle",
     res |-> 0,
     silenceDetector |-> NoDsp,
     dspsilence |-> 0,
     framelength |-> 0,
     readFormat |-> "none",
     inInitialSilence |-> 1,
     inGreeting |-> 0,
     voiceDuration |-> 0,
     silenceDuration |-> 0,
     iTotalTime |-> 0,
     iWordsCount |-> 0,
     currentState |-> STATE_IN_WORD,
     consecutiveVoiceDuration |-> 0,
     spitCause |-> <<>>,
     spitStatus |-> "",
     \* history, not read by the code:
     exit |-> "",               \* how the loop was left
     slin |-> FALSE,            \* the read format was switched to slin
     nRead |-> 0,               \* frames ast_read() returned
     nFreed |-> 0,              \* ast_frfree() calls
     branch |-> "",             \* branch the last Voice/marker frame took
     marker |-> FALSE,          \* the last frame was a NULL or CNG frame
     dtmf |-> 0,                \* subclass of the DTMF frame read, 0 if none
     bursts |-> 0,              \* voice bursts that reached minimumWordLength
     burstCounted |-> FALSE,    \* the current burst is in bursts already
     boundarySeen |-> FALSE,    \* a silence >= betweenWordsSilence was seen
     unled |-> 0,               \* 1: the first burst had no such silence before it
     restoreFailed |-> FALSE]   \* ast_set_read_format() refused the saved format

InitChan(fmt) ==
    [readformat |-> fmt, SPITSTATUS |-> "(unset)", SPITCAUSE |-> <<"(unset)">>,
     nStatus |-> 0, nCause |-> 0]

\* pbx_builtin_setvar_helper(chan, "SPITSTATUS", st); (..., "SPITCAUSE", ca)
Publish(c, st, ca) ==
    [c EXCEPT !.SPITSTATUS = st, !.SPITCAUSE = ca,
              !.nStatus = @ + 1, !.nCause = @ + 1]

-----------------------------------------------------------------------------
(* The frame loop (lines 296-432) as a function of the locals s, the       *)
(* parameters q and the frame fr                                           *)

\* ast_dsp_silence(): the silence accumulated over the voice frames so far,
\* 0 once a frame is above the threshold
ast_dsp_silence(dsp, fr) ==
    IF fr.energy < dsp.threshold
    THEN [dsp EXCEPT !.totalsilence = @ + fr.samples \div DEFAULT_SAMPLES_PER_MS]
    ELSE [dsp EXCEPT !.totalsilence = 0]

\* line 431, and back to ast_waitfor
Continue(s) == [s EXCEPT !.nFreed = @ + 1, !.pc = "wait"]

\* HangupBreak without line 303 (res = 1), as lines 326-330 are
HangupBreak_NoRes(s) ==
    [s EXCEPT !.spitStatus = "HANGUP", !.pc = "finish", !.exit = "HANGUP"]

HangupBreak(s) ==
    [s EXCEPT !.spitStatus = "HANGUP", !.res = 1, !.pc = "finish", !.exit = "HANGUP"]

\* DtmfBreak with the character code itself in the cause (no - 48)
DtmfBreak_Ascii(s, fr) ==
    [s EXCEPT !.spitStatus = "DTMF",
              !.spitCause = <<"DTMFFRAME", fr.subclass>>,
              !.res = 1, !.pc = "finish", !.exit = "DTMF"]

DtmfBreak(s, fr) ==
    [s EXCEPT !.spitStatus = "DTMF",
              !.spitCause = <<"DTMFFRAME", fr.subclass - 48>>,
              !.res = 1, !.pc = "finish", !.exit = "DTMF"]

TimeoutBreak(s) ==
    [s EXCEPT !.nFreed = @ + 1,
              !.spitStatus = "NOTSURE",
              !.spitCause = <<"TIMEOUT", s.iTotalTime>>,
              !.pc = "finish", !.exit = "TIMEOUT"]

\* InitialSilenceBreak without line 362 (res = 1), as lines 326-330 are
InitialSilenceBreak_NoRes(s, q) ==
    [s EXCEPT !.nFreed = @ + 1,
              !.spitStatus = "HUMAN",
              !.spitCause = <<"INITIALSILENCE", s.silenceDuration, q.initialSilence>>,
              !.pc = "finish", !.exit = "INITIALSILENCE"]

InitialSilenceBreak(s, q) ==
    [s EXCEPT !.nFreed = @ + 1,
              !.spitStatus = "HUMAN",
              !.spitCause = <<"INITIALSILENCE", s.silenceDuration, q.initialSilence>>,
              !.res = 1, !.pc = "finish", !.exit = "INITIALSILENCE"]

SilenceAfterNoiseBreak(s, q) ==
    [s EXCEPT !.nFreed = @ + 1,
              !.spitStatus = "HUMAN",
              !.spitCause = <<"SILENCEAFTERNOISE", s.silenceDuration, q.afterGreetingSilence>>,
              !.res = 1, !.pc = "finish", !.exit = "SILENCEAFTERNOISE"]

MaxWordLengthBreak(s) ==
    [s EXCEPT !.nFreed = @ + 1,
              !.spitStatus = "MACHINE",
              !.spitCause = <<"MAXWORDLENGTH", s.consecutiveVoiceDuration>>,
              !.pc = "finish", !.exit = "MAXWORDLENGTH"]

\* MaxWordsBreak without line 399 (res = 1), as lines 388-392 are
MaxWordsBreak_NoRes(s, q) ==
    [s EXCEPT !.nFreed = @ + 1,
              !.spitStatus = "MACHINE",
              !.spitCause = <<"MAXWORDS", s.iWordsCount, q.maximumNumberOfWords>>,
              !.pc = "finish", !.exit = "MAXWORDS"]

MaxWordsBreak(s, q) ==
    [s EXCEPT !.nFreed = @ + 1,
              !.spitStatus = "MACHINE",
              !.spitCause = <<"MAXWORDS", s.iWordsCount, q.maximumNumberOfWords>>,
              !.res = 1, !.pc = "finish", !.exit = "MAXWORDS"]

LongGreetingBreak(s, q) ==
    [s EXCEPT !.nFreed = @ + 1,
              !.spitStatus = "MACHINE",
              !.spitCause = <<"LONGGREETING", s.voiceDuration, q.greeting>>,
              !.res = 1, !.pc = "finish", !.exit = "LONGGREETING"]

\* SilenceBranch with line 366 testing the silence alone, not inGreeting
SilenceBranch_AnySilence(s, q) ==
    LET s1 == [s EXCEPT !.silenceDuration = s.dspsilence, !.branch = "silence"]
        s2 == IF s1.silenceDuration >= q.betweenWordsSilence
              THEN [s1 EXCEPT !.currentState = STATE_IN_SILENCE,
                              !.consecutiveVoiceDuration = 0,
                              !.burstCounted = FALSE,
                              !.boundarySeen = TRUE]
              ELSE s1
    IN  IF s2.inInitialSilence = 1 /\ s2.silenceDuration >= q.initialSilence
        THEN InitialSilenceBreak(s2, q)
        ELSE IF s2.silenceDuration >= q.afterGreetingSilence
        THEN SilenceAfterNoiseBreak(s2, q)
        ELSE Continue(s2)

\* lines 341-374: dspsilence > 0
SilenceBranch(s, q) ==
    LET s1 == [s EXCEPT !.silenceDuration = s.dspsilence, !.branch = "silence"]
        s2 == IF s1.silenceDuration >= q.betweenWordsSilence
              THEN [s1 EXCEPT !.currentState = STATE_IN_SILENCE,
                              !.consecutiveVoiceDuration = 0,
                              !.burstCounted = FALSE,
                              !.boundarySeen = TRUE]
              ELSE s1
    IN  IF s2.inInitialSilence = 1 /\ s2.silenceDuration >= q.initialSilence
        THEN InitialSilenceBreak(s2, q)
        ELSE IF s2.silenceDuration >= q.afterGreetingSilence /\ s2.inGreeting = 1
        THEN SilenceAfterNoiseBreak(s2, q)
        ELSE Continue(s2)

\* CountWord counting on every frame of a long enough burst (no state test)
CountWord_EveryFrame(s, q) ==
    IF s.consecutiveVoiceDuration >= q.minimumWordLength
    THEN [s EXCEPT !.iWordsCount = @ + 1, !.currentState = STATE_IN_WORD]
    ELSE s

\* lines 382-386: a word is counted on leaving STATE_IN_SILENCE
CountWord(s, q) ==
    IF s.consecutiveVoiceDuration >= q.minimumWordLength
       /\ s.currentState = STATE_IN_SILENCE
    THEN [s EXCEPT !.iWordsCount = @ + 1, !.currentState = STATE_IN_WORD]
    ELSE s

\* history: the bursts that reached minimumWordLength, each counted once
CountBurst(s, q) ==
    IF s.consecutiveVoiceDuration >= q.minimumWordLength /\ ~s.burstCounted
    THEN [s EXCEPT !.bursts = @ + 1, !.burstCounted = TRUE,
                   !.unled = IF s.bursts = 0 /\ ~s.boundarySeen THEN 1 ELSE @]
    ELSE s

\* EnterGreeting without line 421 (inInitialSilence = 0)
EnterGreeting_GreetingOnly(s, q) ==
    IF s.consecutiveVoiceDuration >= q.minimumWordLength /\ s.inGreeting = 0
    THEN [s EXCEPT !.inGreeting = 1]
    ELSE s

\* lines 417-423: the first word ends the initial silence
EnterGreeting(s, q) ==
    IF s.consecutiveVoiceDuration >= q.minimumWordLength /\ s.inGreeting = 0
    THEN [s EXCEPT !.inInitialSilence = 0, !.inGreeting = 1]
    ELSE s

\* lines 376-425: dspsilence = 0
VoiceBranch(s, q) ==
    LET s1 == [s EXCEPT !.consecutiveVoiceDuration = @ + s.framelength,
                        !.voiceDuration = @ + s.framelength,
                        !.branch = "voice"]
        s2 == CountBurst(CountWord(s1, q), q)
    IN  IF s2.consecutiveVoiceDuration >= q.maximumWordLength
        THEN MaxWordLengthBreak(s2)
        ELSE IF s2.iWordsCount >= q.maximumNumberOfWords
        THEN MaxWordsBreak(s2, q)
        ELSE IF s2.inGreeting = 1 /\ s2.voiceDuration >= q.greeting
        THEN LongGreetingBreak(s2, q)
        ELSE
          LET s3 == IF s2.voiceDuration >= q.minimumWordLength
                    THEN [s2 EXCEPT !.silenceDuration = 0] ELSE s2
          IN  Continue(EnterGreeting(s3, q))

\* lines 318-322
FrameLength(q, fr) ==
    IF fr.frametype = "VOICE"
    THEN fr.samples \div DEFAULT_SAMPLES_PER_MS
    ELSE 2 * q.maxWaitTimeForFrame

\* FeedDetector with a marker frame setting the silence (=), not adding (+=)
FeedDetector_Fixed(s, q, fr) ==
    IF fr.frametype # "VOICE"
    THEN [s EXCEPT !.dspsilence = 2 * q.maxWaitTimeForFrame]
    ELSE LET dsp == ast_dsp_silence(s.silenceDetector, fr)
         IN  [s EXCEPT !.silenceDetector = dsp, !.dspsilence = dsp.totalsilence]

\* lines 333-339: feed the frame into the silence detector
FeedDetector(s, q, fr) ==
    IF fr.frametype # "VOICE"
    THEN [s EXCEPT !.dspsilence = @ + 2 * q.maxWaitTimeForFrame]
    ELSE LET dsp == ast_dsp_silence(s.silenceDetector, fr)
         IN  [s EXCEPT !.silenceDetector = dsp, !.dspsilence = dsp.totalsilence]

\* VoiceOrMarker with the total-time test of line 325 as > instead of >=
VoiceOrMarker_Gt(s, q, fr) ==
    LET s1 == [s EXCEPT !.framelength = FrameLength(q, fr),
                        !.iTotalTime = @ + FrameLength(q, fr),
                        !.marker = (fr.frametype # "VOICE")]
    IN  IF s1.iTotalTime > q.totalAnalysisTime
        THEN TimeoutBreak(s1)
        ELSE LET s2 == FeedDetector(s1, q, fr)
             IN  IF s2.dspsilence > 0 THEN SilenceBranch(s2, q) ELSE VoiceBranch(s2, q)

\* lines 316-430: a Voice, NULL or CNG frame
VoiceOrMarker(s, q, fr) ==
    LET s1 == [s EXCEPT !.framelength = FrameLength(q, fr),
                        !.iTotalTime = @ + FrameLength(q, fr),
                        !.marker = (fr.frametype # "VOICE")]
    IN  IF s1.iTotalTime >= q.totalAnalysisTime
        THEN TimeoutBreak(s1)
        ELSE LET s2 == FeedDetector(s1, q, fr)
             IN  IF s2.dspsilence > 0 THEN SilenceBranch(s2, q) ELSE VoiceBranch(s2, q)

\* LoopBody with the total-time test of line 325 reading the static
\* dfltTotalAnalysisTime instead of the local totalAnalysisTime
LoopBody_LiveStatic(s, q, fr) ==
    IF fr = NoFrame
    THEN HangupBreak(s)
    ELSE LET s0 == [s EXCEPT !.nRead = @ + 1, !.branch = "", !.marker = FALSE,
                             !.dtmf = fr.subclass]
             live == [q EXCEPT !.totalAnalysisTime = dfltTotalAnalysisTime]
         IN  IF fr.frametype \in {"DTMF_BEGIN", "DTMF_END"}
             THEN DtmfBreak(s0, fr)
             ELSE IF fr.frametype \in {"VOICE", "NULL", "CNG"}
             THEN VoiceOrMarker(s0, live, fr)
             ELSE Continue(s0)

\* lines 298-432: the body of the loop for what ast_read() returned
LoopBody(s, q, fr) ==
    IF fr = NoFrame
    THEN HangupBreak(s)
    ELSE LET s0 == [s EXCEPT !.nRead = @ + 1, !.branch = "", !.marker = FALSE,
                             !.dtmf = fr.subclass]
         IN  IF fr.frametype \in {"DTMF_BEGIN", "DTMF_END"}
             THEN DtmfBreak(s0, fr)
             ELSE IF fr.frametype \in {"VOICE", "NULL", "CNG"}
             THEN VoiceOrMarker(s0, q, fr)
             ELSE Continue(s0)

\* line 296: the loop condition on what ast_waitfor() returned
LoopCond(s, r) ==
    IF r > -1
    THEN [s EXCEPT !.res = r, !.pc = "read"]
    ELSE [s EXCEPT !.res = r, !.pc = "finish", !.exit = "WAITERR"]

\* lines 434-439
NoFrames(s) ==
    IF s.res = 0
    THEN [s EXCEPT !.spitStatus = "NOFRAMES", !.spitCause = <<"TIMEOUT", s.iTotalTime>>]
    ELSE s

-----------------------------------------------------------------------------
(* Resource setup and release *)

\* the read format a channel may have when SPIT() is called
Formats == {"ulaw"}

\* SetReadFormatFailed returning without setting the channel variables
SetReadFormatFailed_Silent(s, c) ==
    [run  |-> [s EXCEPT !.pc = "done", !.exit = "NOTSLIN"],
     chan |-> c]

\* lines 277-282: ast_set_read_format(chan, ast_format_slin) < 0
SetReadFormatFailed(s, c) ==
    [run  |-> [s EXCEPT !.pc = "done", !.exit = "NOTSLIN"],
     chan |-> Publish(c, "NOTSLIN", <<"INVALIDFORMAT">>)]

\* lines 285-290: ast_dsp_new() returned NULL
DspNewFailed(s, c) ==
    [run  |-> [s EXCEPT !.pc = "done", !.exit = "NODETECTOR"],
     chan |-> Publish(c, "NODETECTOR", <<"CANNOTCREATE">>)]

\* lines 434-452: NOFRAMES, the two channel variables, the read format
\* (restored is what ast_set_read_format(chan, readFormat) achieved), the DSP
Epilogue(s, c, restored) ==
    LET s1 == NoFrames(s)
        c1 == Publish(c, s1.spitStatus, s1.spitCause)
    IN  [run  |-> [s1 EXCEPT !.pc = "done", !.silenceDetector.freed = TRUE,
                             !.restoreFailed = ~restored],
         chan |-> IF restored THEN [c1 EXCEPT !.readformat = s1.readFormat] ELSE c1]

-----------------------------------------------------------------------------
(* Initial state: the statics as app_spit.c initialises them (lines 166-177) *)

SourceDflt ==
    [dfltInitialSilence       |-> 2500,
     dfltGreeting             |-> 1500,
     dfltAfterGreetingSilence |-> 800,
     dfltTotalAnalysisTime    |-> 5000,
     dfltMinimumWordLength    |-> 100,
     dfltBetweenWordsSilence  |-> 50,
     dfltMaximumNumberOfWords |-> 3,
     dfltSilenceThreshold     |-> 256,
     dfltMaximumWordLength    |-> 5000,
     dfltMaxWaitTimeForFrame  |-> 50]

InitDflt(d) ==
    /\ dfltInitialSilence       = d.dfltInitialSilence
    /\ dfltGreeting             = d.dfltGreeting
    /\ dfltAfterGreetingSilence = d.dfltAfterGreetingSilence
    /\ dfltTotalAnalysisTime    = d.dfltTotalAnalysisTime
    /\ dfltMinimumWordLength    = d.dfltMinimumWordLength
    /\ dfltBetweenWordsSilence  = d.dfltBetweenWordsSilence
    /\ dfltMaximumNumberOfWords = d.dfltMaximumNumberOfWords
    /\ dfltSilenceThreshold     = d.dfltSilenceThreshold
    /\ dfltMaximumWordLength    = d.dfltMaximumWordLength
    /\ dfltMaxWaitTimeForFrame  = d.dfltMaxWaitTimeForFrame

\* no load_config() call recorded
NoLoad == [reload |-> 0, status |-> "none", before |-> SourceDflt]

\* the calls that may run at the same time, each with its own locals and
\* its own channel
CallIds == {1, 2}

IdleCall ==
    [args |-> NoArgs, seen |-> SourceDflt, p |-> NoParams, run |-> InitRun,
     chan |-> InitChan("ulaw")]

NoCalls == [i \in CallIds |-> IdleCall]

Init ==
    /\ InitDflt(SourceDflt)
    /\ module = "unloaded"
    /\ args = NoArgs
    /\ p = NoParams
    /\ run = InitRun
    /\ run2 = InitRun
    /\ calls = NoCalls
    /\ lastLoad = NoLoad
    /\ chan = InitChan("ulaw")

-----------------------------------------------------------------------------
(* Actions *)

\* load_module(): load_config(0), then the application is registered
LoadModule ==
    /\ module = "unloaded"
    /\ \E ld \in ConfigLoads(0), registered \in BOOLEAN :
          /\ SetDflt(load_config_dflt(Dflt, ld))
          /\ module' = IF load_config_ret(ld) = 0 /\ registered
                       THEN "loaded" ELSE "declined"
    /\ UNCHANGED <<args, p, run, chan, run2, calls, lastLoad>>

\* reload(): load_config(1), at any time once the module is loaded
Reload ==
    /\ module = "loaded"
    /\ \E ld \in ConfigLoads(1) : SetDflt(load_config_dflt(Dflt, ld))
    /\ UNCHANGED <<module, args, p, run, chan, run2, calls, lastLoad>>

\* spit_exec() -> isAutomatedDialer(): lines 195-276
SpitExec ==
    /\ module = "loaded"
    /\ run.pc = "idle"
    /\ \E a \in ArgSets, fmt \in Formats :
          /\ args' = a
          /\ p' = ResolveParams(Dflt, a)
          /\ chan' = InitChan(fmt)
          /\ run' = [InitRun EXCEPT !.pc = "setformat", !.readFormat = fmt]
    /\ UNCHANGED <<dflts, module, run2, calls, lastLoad>>

\* line 277
SetReadFormat ==
    /\ run.pc = "setformat"
    /\ \E ok \in BOOLEAN :
          IF ok
          THEN /\ chan' = [chan EXCEPT !.readformat = "slin"]
               /\ run' = [run EXCEPT !.pc = "dspnew", !.slin = TRUE]
          ELSE /\ chan' = SetReadFormatFailed(run, chan).chan
               /\ run' = SetReadFormatFailed(run, chan).run
    /\ UNCHANGED <<dflts, module, args, p, run2, calls, lastLoad>>

\* lines 285-293
DspNew ==
    /\ run.pc = "dspnew"
    /\ \E ok \in BOOLEAN :
          IF ok
          THEN /\ run' = [run EXCEPT !.pc = "wait",
                               !.silenceDetector = [alloc |-> TRUE, freed |-> FALSE,
                                                    threshold |-> p.silenceThreshold,
                                                    totalsilence |-> 0]]
               /\ chan' = chan
          ELSE /\ chan' = DspNewFailed(run, chan).chan
               /\ run' = DspNewFailed(run, chan).run
    /\ UNCHANGED <<dflts, module, args, p, run2, calls, lastLoad>>

\* line 296: ast_waitfor(chan, 2 * maxWaitTimeForFrame)
WaitFor ==
    /\ run.pc = "wait"
    /\ run.nRead < MaxFrames
    /\ \E r \in WaitResults(2 * p.maxWaitTimeForFrame) : run' = LoopCond(run, r)
    /\ UNCHANGED <<dflts, module, args, p, chan, run2, calls, lastLoad>>

\* lines 298-432: ast_read() and the rest of the loop body
ReadFrame ==
    /\ run.pc = "read"
    /\ \E fr \in Reads : run' = LoopBody(run, p, fr)
    /\ UNCHANGED <<dflts, module, args, p, chan, run2, calls, lastLoad>>

\* lines 434-452
Finish ==
    /\ run.pc = "finish"
    /\ \E restored \in BOOLEAN :
          /\ run' = Epilogue(run, chan, restored).run
          /\ chan' = Epilogue(run, chan, restored).chan
    /\ UNCHANGED <<dflts, module, args, p, run2, calls, lastLoad>>

\* spit_exec() returns; the application may be called again
Return ==
    /\ run.pc = "done"
    /\ run' = InitRun
    /\ UNCHANGED <<dflts, module, args, p, chan, run2, calls, lastLoad>>

Next ==
    \/ LoadModule
    \/ Reload
    \/ SpitExec
    \/ SetReadFormat
    \/ DspNew
    \/ WaitFor
    \/ ReadFrame
    \/ Finish
    \/ Return

Spec == Init /\ [][Next]_vars

-----------------------------------------------------------------------------
(* Replay: two runs of the frame loop with the same parameters and the     *)
(* same frames (and the same failure of the frame source); only what       *)
(* ast_waitfor() answers when it does not fail, 0 or a positive number of  *)
(* milliseconds, is free in each.                                          *)

\* the locals when the loop is entered (line 296)
LoopEntry(q) ==
    [InitRun EXCEPT !.pc = "wait", !.readFormat = "ulaw", !.slin = TRUE,
                    !.silenceDetector = [alloc |-> TRUE, freed |-> FALSE,
                                         threshold |-> q.silenceThreshold,
                                         totalsilence |-> 0]]

\* a loaded module and a call that has reached the loop
ReplayInit ==
    /\ \E c \in ConfigFiles, a \in ArgSets :
          LET d == load_config_dflt(SourceDflt, [status |-> "ok", cfg |-> c])
          IN  /\ InitDflt(d)
              /\ args = a
              /\ p = ResolveParams(d, a)
    /\ module = "loaded"
    /\ run = LoopEntry(p)
    /\ run2 = LoopEntry(p)
    /\ calls = NoCalls
    /\ lastLoad = NoLoad
    /\ chan = InitChan("slin")

ReplayWaitFor ==
    /\ run.pc = "wait" /\ run2.pc = "wait"
    /\ run.nRead < MaxFrames
    /\ \E r1 \in WaitResults(2 * p.maxWaitTimeForFrame),
          r2 \in WaitResults(2 * p.maxWaitTimeForFrame) :
          /\ (r1 = -1) <=> (r2 = -1)
          /\ run' = LoopCond(run, r1)
          /\ run2' = LoopCond(run2, r2)
    /\ UNCHANGED <<dflts, module, args, p, chan, calls, lastLoad>>

ReplayReadFrame ==
    /\ run.pc = "read" /\ run2.pc = "read"
    /\ \E fr \in Reads :
          /\ run' = LoopBody(run, p, fr)
          /\ run2' = LoopBody(run2, p, fr)
    /\ UNCHANGED <<dflts, module, args, p, chan, calls, lastLoad>>

ReplayFinish ==
    /\ run.pc = "finish" /\ run2.pc = "finish"
    /\ run' = Epilogue(run, chan, TRUE).run
    /\ run2' = Epilogue(run2, chan, TRUE).run
    /\ chan' = Epilogue(run, chan, TRUE).chan
    /\ UNCHANGED <<dflts, module, args, p, calls, lastLoad>>

ReplayNext ==
    \/ ReplayWaitFor
    \/ ReplayReadFrame
    \/ ReplayFinish

SpecReplay == ReplayInit /\ [][ReplayNext]_vars

-----------------------------------------------------------------------------
(* Resolve: the parameter resolution of lines 201-267 on its own, over     *)
(* more defaults and argument strings than the calls of Spec are made with *)

\* a spit.conf whose [general] sets nothing
CfgEmpty == << [cat |-> "general", vars |-> <<>>] >>

\* the defaults load_config() can leave in a module that loaded
ResolveDflts ==
    {load_config_dflt(SourceDflt, [status |-> "ok", cfg |-> c]) :
        c \in ConfigFiles \cup {CfgEmpty}}

\* absent, below every default of the source, above the 50 of line 177
ArgStrings == {<<>>, <<"7">>, <<"9", "0">>}

ResolveArgSets ==
    {[NoArgs EXCEPT !.argInitialSilence = a[1], !.argGreeting = a[2],
                    !.argAfterGreetingSilence = a[3],
                    !.argTotalAnalysisTime = a[4],
                    !.argMinimumWordLength = a[5],
                    !.argBetweenWordsSilence = a[6]] :
        a \in [1..6 -> ArgStrings]}

ResolveInit ==
    /\ \E d \in ResolveDflts : InitDflt(d)
    /\ module = "loaded"
    /\ args = NoArgs
    /\ p = NoParams
    /\ run = InitRun
    /\ run2 = InitRun
    /\ calls = NoCalls
    /\ lastLoad = NoLoad
    /\ chan = InitChan("ulaw")

\* lines 201-267 of the first call, made with the arguments a
Resolve ==
    /\ p = NoParams
    /\ \E a \in ResolveArgSets :
          /\ args' = a
          /\ p' = ResolveParams(Dflt, a)
    /\ UNCHANGED <<dflts, module, run, chan, run2, calls, lastLoad>>

SpecResolve == ResolveInit /\ [][Resolve]_vars

-----------------------------------------------------------------------------
(* Calls: several calls of isAutomatedDialer() on their own channels and   *)
(* reload() running at the same time.  Asterisk runs each call in the      *)
(* thread of its channel and reload() in another, with no lock around the  *)
(* statics; a call copies them into its locals at lines 200-209, so a      *)
(* reload between two of these reads leaves the call with some of the old  *)
(* and some of the new values.  Resource setup is taken to succeed.        *)

\* frames one of the concurrent calls may read
MaxCallFrames == 2

\* the argument strings of the concurrent calls
CallArgSets == {NoArgs}

\* what ast_read() returns to the concurrent calls: a noisy voice frame of
\* 6 ms, a NULL frame, NULL (hangup)
CallReads ==
    {[frametype |-> "VOICE", samples |-> 48, energy |-> 1000, subclass |-> 0],
     [frametype |-> "NULL", samples |-> 0, energy |-> 0, subclass |-> 0],
     NoFrame}

\* the statics as a call read them: lines 200-204 at one time (early),
\* lines 205-209 at a later one (late)
StaticsRead(early, late) ==
    [late EXCEPT !.dfltInitialSilence       = early.dfltInitialSilence,
                 !.dfltGreeting             = early.dfltGreeting,
                 !.dfltAfterGreetingSilence = early.dfltAfterGreetingSilence,
                 !.dfltTotalAnalysisTime    = early.dfltTotalAnalysisTime,
                 !.dfltMinimumWordLength    = early.dfltMinimumWordLength]

CallsInit ==
    /\ \E c \in ConfigFiles :
          InitDflt(load_config_dflt(SourceDflt, [status |-> "ok", cfg |-> c]))
    /\ module = "loaded"
    /\ args = NoArgs
    /\ p = NoParams
    /\ run = InitRun
    /\ run2 = InitRun
    /\ chan = InitChan("ulaw")
    /\ calls = NoCalls
    /\ lastLoad = NoLoad

\* spit_exec() on the channel of call i: lines 200-204
CallExec(i) ==
    /\ calls[i].run.pc = "idle"
    /\ \E a \in CallArgSets :
          calls' = [calls EXCEPT ![i] =
                       [IdleCall EXCEPT !.args = a, !.seen = Dflt,
                                        !.run.pc = "resolve"]]
    /\ UNCHANGED <<dflts, module, args, p, run, chan, run2, lastLoad>>

\* lines 205-293: the other statics, the arguments, maxWaitTimeForFrame,
\* the read format and the DSP
CallResolve(i) ==
    /\ calls[i].run.pc = "resolve"
    /\ LET q == ResolveParams(StaticsRead(calls[i].seen, Dflt), calls[i].args)
       IN  calls' = [calls EXCEPT ![i].p = q,
                                  ![i].seen = SourceDflt,
                                  ![i].run = LoopEntry(q),
                                  ![i].chan.readformat = "slin"]
    /\ UNCHANGED <<dflts, module, args, p, run, chan, run2, lastLoad>>

\* line 296
CallWaitFor(i) ==
    /\ calls[i].run.pc = "wait"
    /\ calls[i].run.nRead < MaxCallFrames
    /\ \E r \in WaitResults(2 * calls[i].p.maxWaitTimeForFrame) :
          calls' = [calls EXCEPT ![i].run = LoopCond(@, r)]
    /\ UNCHANGED <<dflts, module, args, p, run, chan, run2, lastLoad>>

\* lines 298-432
CallReadFrame(i) ==
    /\ calls[i].run.pc = "read"
    /\ \E fr \in CallReads :
          calls' = [calls EXCEPT ![i].run = LoopBody(@, calls[i].p, fr)]
    /\ UNCHANGED <<dflts, module, args, p, run, chan, run2, lastLoad>>

\* lines 434-452
CallFinish(i) ==
    /\ calls[i].run.pc = "finish"
    /\ LET e == Epilogue(calls[i].run, calls[i].chan, TRUE)
       IN  calls' = [calls EXCEPT ![i].run = e.run, ![i].chan = e.chan]
    /\ UNCHANGED <<dflts, module, args, p, run, chan, run2, lastLoad>>

CallsNext ==
    \/ Reload
    \/ \E i \in CallIds : CallExec(i)
    \/ \E i \in CallIds : CallResolve(i)
    \/ \E i \in CallIds : CallWaitFor(i)
    \/ \E i \in CallIds : CallReadFrame(i)
    \/ \E i \in CallIds : CallFinish(i)

SpecCalls == CallsInit /\ [][CallsNext]_vars

-----------------------------------------------------------------------------
(* Config: load_module() and reload() on their own, over more spit.conf    *)
(* contents than Spec loads, with each load_config() call recorded: what   *)
(* ast_config_load() answered and the statics as they were before it       *)

CfgThreshold ==
    << [cat |-> "general", vars |-> <<
          [name |-> "silence_threshold",       value |-> <<"3", "0", "0">>] >>] >>

CfgWords ==
    << [cat |-> "general", vars |-> <<
          [name |-> "maximum_number_of_words", value |-> <<"5">>] >>] >>

\* what ast_config_load("spit.conf", flags) may answer, over these files too
ConfigAnswers(reload) ==
    ConfigLoads(reload)
    \cup {[status |-> "ok", cfg |-> c] : c \in {CfgEmpty, CfgThreshold, CfgWords}}

ConfigInit ==
    /\ InitDflt(SourceDflt)
    /\ module = "unloaded"
    /\ args = NoArgs
    /\ p = NoParams
    /\ run = InitRun
    /\ run2 = InitRun
    /\ chan = InitChan("ulaw")
    /\ calls = NoCalls
    /\ lastLoad = NoLoad

\* load_module(): load_config(0)
ConfigLoadModule ==
    /\ module = "unloaded"
    /\ \E ld \in ConfigAnswers(0) :
          /\ SetDflt(load_config_dflt(Dflt, ld))
          /\ module' = IF load_config_ret(ld) = 0 THEN "loaded" ELSE "declined"
          /\ lastLoad' = [reload |-> 0, status |-> ld.status, before |-> Dflt]
    /\ UNCHANGED <<args, p, run, chan, run2, calls>>

\* reload(): load_config(1)
ConfigReload ==
    /\ module = "loaded"
    /\ \E ld \in ConfigAnswers(1) :
          /\ SetDflt(load_config_dflt(Dflt, ld))
          /\ lastLoad' = [reload |-> 1, status |-> ld.status, before |-> Dflt]
    /\ UNCHANGED <<module, args, p, run, chan, run2, calls>>

ConfigNext ==
    \/ ConfigLoadModule
    \/ ConfigReload

SpecConfig == ConfigInit /\ [][ConfigNext]_vars

-----------------------------------------------------------------------------
(* Properties *)

SevenStatuses ==
    {"DIALER", "HUMAN", "DTMF", "NOTSURE", "MACHINE", "HANGUP", "NOFRAMES"}

Returned == run.pc = "done"

\* the call got past resource setup and entered the frame loop
EnteredLoop == run.silenceDetector.alloc

\* the channel variables hold status st and cause ca, each set once
Published(st, ca) ==
    /\ chan.SPITSTATUS = st /\ chan.SPITCAUSE = ca
    /\ chan.nStatus = 1 /\ chan.nCause = 1

\* the loop was left with status st and cause ca, and once the function has
\* returned they are what the channel variables hold
EndsWith(st, ca) ==
    /\ run.pc \in {"finish", "done"}
    /\ run.spitStatus = st /\ run.spitCause = ca
    /\ Returned => Published(st, ca)

\* C1: every run that entered the frame loop publishes SPITSTATUS exactly
\* once, and the value is one of the seven enumerated statuses, whichever
\* way the loop was left (a break, or ast_waitfor returning a negative value).
C1_OneOfSevenStatuses ==
    (Returned /\ EnteredLoop) =>
        (chan.SPITSTATUS \in SevenStatuses /\ chan.nStatus = 1)

\* C2: when a Voice or marker frame made iTotalTime reach totalAnalysisTime
\* (the loop was left at lines 325-331), the published result is NOTSURE with
\* cause TIMEOUT-<iTotalTime>, whatever the preceding ast_waitfor returned.
C2_TimeoutIsNotSure ==
    (Returned /\ run.exit = "TIMEOUT") =>
        Published("NOTSURE", <<"TIMEOUT", run.iTotalTime>>)

\* C3: when the last frame took the voice branch and consecutiveVoiceDuration
\* reached maximumWordLength on it (the total-time check passed), the
\* published result is MACHINE with cause MAXWORDLENGTH-<consecutiveVoiceDuration>,
\* whatever the preceding ast_waitfor returned.
C3_MaxWordLengthIsMachine ==
    (Returned /\ run.branch = "voice"
        /\ run.consecutiveVoiceDuration >= p.maximumWordLength) =>
        Published("MACHINE", <<"MAXWORDLENGTH", run.consecutiveVoiceDuration>>)

TerminalExits ==
    {"HANGUP", "DTMF", "TIMEOUT", "INITIALSILENCE", "SILENCEAFTERNOISE",
     "MAXWORDLENGTH", "MAXWORDS", "LONGGREETING"}

\* C4: NOFRAMES is published only for runs in which no terminal condition
\* fired; it never replaces the result of a condition that did fire.
C4_NoFramesOnlyWhenNothingFired ==
    (Returned /\ EnteredLoop /\ chan.SPITSTATUS = "NOFRAMES") =>
        run.exit \notin TerminalExits

\* the MAXWORDS result of the running call
MaxWordsResult ==
    EndsWith("MACHINE", <<"MAXWORDS", run.iWordsCount, p.maximumNumberOfWords>>)

\* C5 (as claimed): once the frame source has yielded maximumNumberOfWords
\* voice bursts, each reaching minimumWordLength and separated by silences
\* >= betweenWordsSilence, and neither the total-time check nor MAXWORDLENGTH
\* fired on the frame that completed them, the result is MACHINE with cause
\* MAXWORDS-<iWordsCount>-<maximumNumberOfWords>, also when the first burst
\* begins the stream with no silence before it.
C5_MaxWordsAnyFirstBurst ==
    (run.branch = "voice"
        /\ run.bursts >= p.maximumNumberOfWords
        /\ run.consecutiveVoiceDuration < p.maximumWordLength) =>
        MaxWordsResult

\* C5 (amended): the same, counting only the bursts that follow a silence
\* >= betweenWordsSilence: a first burst that begins the stream while
\* currentState is still STATE_IN_WORD is not a counted word.
C5_MaxWordsAfterSilence ==
    (run.branch = "voice"
        /\ run.bursts - run.unled >= p.maximumNumberOfWords
        /\ run.consecutiveVoiceDuration < p.maximumWordLength) =>
        MaxWordsResult

\* C5 witness: two bursts, each after a word-boundary silence, ended the call
\* with MAXWORDS
C5_Witness ==
    /\ Returned /\ run.exit = "MAXWORDS"
    /\ run.unled = 0 /\ run.bursts >= 2
    /\ run.bursts >= p.maximumNumberOfWords
    /\ chan.SPITSTATUS = "MACHINE"

\* this step processed a Voice, NULL or CNG frame (lines 316-430)
VoiceOrMarkerStep ==
    /\ run.pc = "read"
    /\ run'.nRead = run.nRead + 1
    /\ (run'.branch \in {"voice", "silence"} \/ run'.exit = "TIMEOUT")

\* C6: iTotalTime grows with every marker frame and every voice frame of at
\* least one millisecond, for every resolved parameter set
\* (maxWaitTimeForFrame = 0 included) and every wait outcome, which is what
\* bounds the number of iterations of the loop.
C6_ElapsedGrowsEachFrame ==
    [][(VoiceOrMarkerStep /\ (run'.marker \/ run'.framelength > 0))
          => run'.iTotalTime > run.iTotalTime]_vars

\* C7: two runs with the same parameters and the same frames publish the same
\* status and cause, whatever ast_waitfor returned (0 or a positive value) in
\* each of them.
C7_SameFramesSameResult ==
    (run.pc = "done" /\ run2.pc = "done") =>
        (run.spitStatus = run2.spitStatus /\ run.spitCause = run2.spitCause)

\* C8: when the function has returned, a read format that was switched to
\* signed linear has been set back to the saved format (unless the channel
\* refused it), and a silence detector that was created has been freed, on
\* every exit path including the early returns.
C8_ResourcesReleased ==
    Returned =>
        /\ run.slin => (chan.readformat = run.readFormat \/ run.restoreFailed)
        /\ run.silenceDetector.alloc => run.silenceDetector.freed

\* C9 (as claimed): when resource setup failed, the loop never started and no
\* SPITSTATUS / SPITCAUSE value was published for the call.
C9_SetupFailurePublishesNothing ==
    (Returned /\ ~EnteredLoop) =>
        /\ run.nRead = 0 /\ run.exit \notin TerminalExits \cup {"WAITERR"}
        /\ chan.nStatus = 0 /\ chan.nCause = 0
        /\ chan.SPITSTATUS = "(unset)"

\* C9 (amended): when resource setup failed, the loop never started and none
\* of the seven detection statuses was produced; the call publishes, once,
\* SPITSTATUS=NOTSLIN with SPITCAUSE=INVALIDFORMAT when the read format could
\* not be switched, and SPITSTATUS=NODETECTOR with SPITCAUSE=CANNOTCREATE
\* when the silence detector could not be created.
C9_SetupFailurePublishesOwnStatus ==
    (Returned /\ ~EnteredLoop) =>
        /\ run.nRead = 0 /\ run.exit \notin TerminalExits \cup {"WAITERR"}
        /\ chan.SPITSTATUS \notin SevenStatuses
        /\ ~run.slin => Published("NOTSLIN", <<"INVALIDFORMAT">>)
        /\ run.slin => Published("NODETECTOR", <<"CANNOTCREATE">>)

\* C9 witness: a call returned after the read format could not be switched
C9_Witness ==
    Returned /\ ~EnteredLoop /\ ~run.slin /\ chan.SPITSTATUS = "NOTSLIN"

CauseName(ca) == IF Len(ca) = 0 THEN "" ELSE ca[1]

\* the loop was left by the SILENCEAFTERNOISE rule (lines 366-374)
SilenceAfterNoiseResult ==
    EndsWith("HUMAN", <<"SILENCEAFTERNOISE", run.silenceDuration,
                        p.afterGreetingSilence>>)

\* C11: when the last frame took the silence branch with silenceDuration >=
\* afterGreetingSilence, the run ends with HUMAN and cause
\* SILENCEAFTERNOISE-<silenceDuration>-<afterGreetingSilence> if and only if
\* inGreeting is 1 at that frame; while inGreeting is 0 no status or cause of
\* the call is ever SILENCEAFTERNOISE.
C11_SilenceAfterNoiseIffInGreeting ==
    /\ (run.branch = "silence" /\ run.silenceDuration >= p.afterGreetingSilence) =>
           (SilenceAfterNoiseResult <=> run.inGreeting = 1)
    /\ (run.pc # "idle" /\ run.inGreeting = 0) =>
           /\ CauseName(run.spitCause) # "SILENCEAFTERNOISE"
           /\ CauseName(chan.SPITCAUSE) # "SILENCEAFTERNOISE"

\* both sides happen: a call that returned HUMAN / SILENCEAFTERNOISE after a
\* word, with the channel variables set
C11_Witness ==
    /\ Returned /\ run.inGreeting = 1 /\ run.branch = "silence"
    /\ run.silenceDuration >= p.afterGreetingSilence
    /\ chan.SPITSTATUS = "HUMAN"
    /\ chan.SPITCAUSE = <<"SILENCEAFTERNOISE", run.silenceDuration,
                          p.afterGreetingSilence>>

\* the counters and detection state of the loop
Counters(s) ==
    <<s.iTotalTime, s.voiceDuration, s.silenceDuration,
      s.consecutiveVoiceDuration, s.iWordsCount, s.currentState,
      s.inInitialSilence, s.inGreeting, s.dspsilence, s.framelength,
      s.silenceDetector.totalsilence>>

\* ast_read() returned NULL: the only read that hands the loop no frame
HangupStep ==
    /\ run.pc = "read"
    /\ run' # run
    /\ run'.nRead = run.nRead

\* C12: a read that returns NULL, at any iteration and in any detection
\* state, leaves the loop at once with status HANGUP and the empty cause and
\* with every counter as it was, and HANGUP with the empty cause is what the
\* call then publishes.
C12_HangupEndsAtOnce ==
    [][/\ HangupStep =>
            /\ run'.pc = "finish"
            /\ run'.spitStatus = "HANGUP" /\ run'.spitCause = <<>>
            /\ Counters(run') = Counters(run)
       /\ (run.pc = "finish" /\ run.exit = "HANGUP" /\ run'.pc = "done") =>
            /\ chan'.SPITSTATUS = "HANGUP" /\ chan'.SPITCAUSE = <<>>
            /\ chan'.nStatus = 1 /\ chan'.nCause = 1]_vars

\* a hangup after a word and a silence, with ast_waitfor() having returned 0,
\* published as HANGUP
C12_Witness ==
    /\ Returned /\ run.exit = "HANGUP" /\ run.res = 1
    /\ run.nRead >= 2 /\ run.inGreeting = 1 /\ run.iWordsCount >= 1
    /\ Published("HANGUP", <<>>)

\* the character codes of '0' .. '9'
AsciiDigits == <<48, 49, 50, 51, 52, 53, 54, 55, 56, 57>>

\* the digit a character code stands for
DigitOf(code) == CHOOSE d \in 0..9 : AsciiDigits[d + 1] = code

\* ast_read() returned a DTMF begin or end frame
DtmfStep ==
    /\ run.pc = "read"
    /\ run'.nRead = run.nRead + 1
    /\ run'.dtmf # 0

\* C13: a DTMF frame, at any iteration, leaves the loop at once with status
\* DTMF and a DTMFFRAME cause, which for a key '0'..'9' carries the digit
\* (DTMFFRAME-5 for '5'); iTotalTime and every other counter are as they
\* were, so the total-time check cannot fire on that frame, and DTMF with
\* that cause is what the call then publishes.
C13_DtmfEndsAtOnce ==
    [][/\ DtmfStep =>
            /\ run'.pc = "finish"
            /\ run'.spitStatus = "DTMF"
            /\ CauseName(run'.spitCause) = "DTMFFRAME"
            /\ (\E d \in 0..9 : AsciiDigits[d + 1] = run'.dtmf) =>
                   run'.spitCause = <<"DTMFFRAME", DigitOf(run'.dtmf)>>
            /\ Counters(run') = Counters(run)
       /\ (run.pc = "finish" /\ run.exit = "DTMF" /\ run'.pc = "done") =>
            /\ chan'.SPITSTATUS = "DTMF" /\ chan'.SPITCAUSE = run.spitCause
            /\ chan'.nStatus = 1 /\ chan'.nCause = 1]_vars

\* the key '5' pressed when one more millisecond of any frame would have
\* reached totalAnalysisTime, published as DTMF / DTMFFRAME-5
C13_Witness ==
    /\ Returned /\ run.dtmf = 53
    /\ run.iTotalTime + 1 >= p.totalAnalysisTime
    /\ Published("DTMF", <<"DTMFFRAME", 5>>)

\* the least element of a finite set of integers
SetMin(S) == CHOOSE x \in S : \A y \in S : x <= y

\* the six durations the maximum wait is taken over
SixDurations(q) ==
    {q.initialSilence, q.greeting, q.afterGreetingSilence,
     q.totalAnalysisTime, q.minimumWordLength, q.betweenWordsSilence}

\* C14: for every default set and every argument string set, the resolved
\* maxWaitTimeForFrame is the minimum of the six resolved durations and 50;
\* so it is at most each of the six and at most 50.
C14_MaxWaitIsMinimum ==
    /\ p.maxWaitTimeForFrame = SetMin(SixDurations(p) \cup {50})
    /\ \A x \in SixDurations(p) : p.maxWaitTimeForFrame <= x
    /\ p.maxWaitTimeForFrame <= 50

\* each case happens: betweenWordsSilence, the last of the chain, alone is
\* the minimum; and none of the six is below 50
C14_WitnessLast ==
    /\ args # NoArgs
    /\ p.maxWaitTimeForFrame = p.betweenWordsSilence
    /\ \A x \in SixDurations(p) \ {p.betweenWordsSilence} :
           x > p.betweenWordsSilence

C14_Witness ==
    /\ args # NoArgs
    /\ p.maxWaitTimeForFrame = 50
    /\ \A x \in SixDurations(p) : x > 50

\* a step of the running call (not the return that discards its locals)
CallStep == run'.pc # "idle"

\* C15: within a call iWordsCount changes only by +1, only on a frame that
\* takes the voice branch while currentState is STATE_IN_SILENCE and brings
\* consecutiveVoiceDuration to minimumWordLength or more, and that frame
\* sets currentState to STATE_IN_WORD; conversely every step from
\* STATE_IN_SILENCE to STATE_IN_WORD adds 1.  Hence iWordsCount is the number
\* of such transitions, at most one per entry into STATE_IN_SILENCE.
C15_WordCountedPerTransition ==
    [][/\ (CallStep /\ run'.iWordsCount # run.iWordsCount) =>
            /\ run.pc = "read"
            /\ run'.iWordsCount = run.iWordsCount + 1
            /\ run'.branch = "voice"
            /\ run.currentState = STATE_IN_SILENCE
            /\ run'.currentState = STATE_IN_WORD
            /\ run'.consecutiveVoiceDuration >= p.minimumWordLength
       /\ (CallStep /\ run.currentState = STATE_IN_SILENCE
                    /\ run'.currentState = STATE_IN_WORD) =>
            run'.iWordsCount = run.iWordsCount + 1]_vars

\* two words counted, and a burst going on that stays one word over
\* several frames
C15_Witness ==
    /\ run.iWordsCount = 2 /\ run.currentState = STATE_IN_WORD
    /\ run.bursts >= 2

C15_WitnessLongWord ==
    /\ run.iWordsCount = 1 /\ run.currentState = STATE_IN_WORD
    /\ run.consecutiveVoiceDuration >= 2 * p.minimumWordLength
    /\ run.branch = "voice" /\ run.pc = "wait"

\* the terminal conditions of the voice branch, as the frame that left the
\* loop satisfied them (lines 387, 394, 402)
MaxWordLengthHolds == run.consecutiveVoiceDuration >= p.maximumWordLength
MaxWordsHolds == run.iWordsCount >= p.maximumNumberOfWords
LongGreetingHolds == run.inGreeting = 1 /\ run.voiceDuration >= p.greeting

\* the result each rule of the voice branch reports
MaxWordLengthResult ==
    Published("MACHINE", <<"MAXWORDLENGTH", run.consecutiveVoiceDuration>>)
MaxWordsPublished ==
    Published("MACHINE", <<"MAXWORDS", run.iWordsCount, p.maximumNumberOfWords>>)
LongGreetingResult ==
    Published("MACHINE", <<"LONGGREETING", run.voiceDuration, p.greeting>>)

\* C16: the terminal conditions are tested in a fixed order, and when the
\* frame that left the loop satisfied several of them the call reports the
\* status and cause of the first: in the voice branch MAXWORDLENGTH before
\* MAXWORDS before LONGGREETING.  (The total-time check leaves the loop
\* before the other conditions are computed, and INITIALSILENCE and
\* SILENCEAFTERNOISE need inInitialSilence = 1 and inGreeting = 1, which
\* never hold together, so the voice branch is where several conditions
\* meet on one frame.)
C16_FirstSatisfiedIsReported ==
    (Returned /\ run.exit \in {"MAXWORDLENGTH", "MAXWORDS", "LONGGREETING"}) =>
        /\ (MaxWordLengthHolds /\ (MaxWordsHolds \/ LongGreetingHolds)) =>
               MaxWordLengthResult
        /\ (~MaxWordLengthHolds /\ MaxWordsHolds /\ LongGreetingHolds) =>
               MaxWordsPublished

\* a NULL or CNG frame was read and passed the total-time check
MarkerStep ==
    /\ run.pc = "read"
    /\ run'.nRead = run.nRead + 1
    /\ run'.marker
    /\ run'.exit # "TIMEOUT"

\* C17 (as claimed): after a NULL or CNG frame is processed, silenceDuration
\* is exactly 2 * maxWaitTimeForFrame, however many marker frames came
\* before it.
C17_MarkerSilenceIsFixed ==
    [][MarkerStep => run'.silenceDuration = 2 * p.maxWaitTimeForFrame]_vars

\* C17 (amended): a NULL or CNG frame adds 2 * maxWaitTimeForFrame to the
\* silence carried over from the frame before it, and when the sum is
\* positive silenceDuration is that sum.
C17_MarkerSilenceAccumulates ==
    [][MarkerStep =>
          /\ run'.dspsilence = run.dspsilence + 2 * p.maxWaitTimeForFrame
          /\ run'.dspsilence > 0 => run'.silenceDuration = run'.dspsilence]_vars

\* two marker frames in a row: the second leaves twice the silence of one
C17_Witness ==
    /\ run.marker /\ run.branch = "silence" /\ run.nRead = 2
    /\ p.maxWaitTimeForFrame > 0
    /\ run.silenceDuration = 4 * p.maxWaitTimeForFrame

C20_CountersOrdered ==
    /\ run.branch \in {"voice", "silence"} =>
          /\ 0 <= run.consecutiveVoiceDuration
          /\ run.consecutiveVoiceDuration <= run.voiceDuration
          /\ run.voiceDuration <= run.iTotalTime
          /\ run.iTotalTime < p.totalAnalysisTime
    /\ (run.pc # "idle" /\ p.maximumWordLength >= p.totalAnalysisTime) =>
          /\ run.exit # "MAXWORDLENGTH"
          /\ CauseName(run.spitCause) # "MAXWORDLENGTH"

\* a call with maximumWordLength >= totalAnalysisTime whose burst went on
\* until the total-time check ended it
C20_Witness ==
    /\ p.maximumWordLength >= p.totalAnalysisTime
    /\ run.exit = "TIMEOUT" /\ run.branch = ""
    /\ run.consecutiveVoiceDuration >= 3
    /\ run.consecutiveVoiceDuration = run.voiceDuration
    /\ run.voiceDuration + run.framelength = run.iTotalTime

\* call c has resolved its parameters (it is past line 267)
Resolved(c) == c.run.pc \in {"wait", "read", "finish", "done"}

\* the thresholds that decided what call c did on its last frame are the
\* ones in its own parameters
DecidedByOwnParams(c) ==
    /\ c.run.branch \in {"voice", "silence"} =>
           c.run.iTotalTime < c.p.totalAnalysisTime
    /\ c.run.exit = "TIMEOUT" => c.run.iTotalTime >= c.p.totalAnalysisTime
    /\ c.run.exit = "INITIALSILENCE" =>
           c.run.silenceDuration >= c.p.initialSilence
    /\ (c.run.branch = "silence" /\ c.run.inInitialSilence = 1
           /\ c.run.exit # "INITIALSILENCE") =>
           c.run.silenceDuration < c.p.initialSilence
    /\ c.run.exit = "MAXWORDLENGTH" <=>
           (c.run.branch = "voice"
               /\ c.run.consecutiveVoiceDuration >= c.p.maximumWordLength)

\* C19: with reload() and several calls running in any interleaving, a call
\* that has resolved its parameters keeps them to its end, and what it does
\* on a frame is decided by them, whatever the statics have become since; a
\* reload changes no call, and a step of one call changes neither another
\* call nor the statics.
C19_CallsKeepTheirParameters ==
    [][/\ \A i \in CallIds :
            /\ Resolved(calls[i]) =>
                   /\ calls'[i].p = calls[i].p
                   /\ calls'[i].args = calls[i].args
            /\ DecidedByOwnParams(calls'[i])
       /\ Dflt' # Dflt => calls' = calls
       /\ \A i \in CallIds : calls'[i] # calls[i] =>
            /\ Dflt' = Dflt
            /\ \A j \in CallIds \ {i} : calls'[j] = calls[j]]_vars

\* a call that went on past 6 ms with its totalAnalysisTime of 8 after a
\* reload had made the static 6, while another call, started after the
\* reload, runs with the 6
C19_Witness ==
    /\ calls[1].run.pc = "done" /\ calls[1].run.branch = "voice"
    /\ calls[1].run.iTotalTime >= dfltTotalAnalysisTime
    /\ calls[1].run.iTotalTime < calls[1].p.totalAnalysisTime
    /\ calls[2].run.pc = "read"
    /\ calls[2].p.totalAnalysisTime = dfltTotalAnalysisTime

\* C21: every frame ast_read() returned is freed exactly once before
\* isAutomatedDialer returns, on every path out of the loop: no frame is
\* freed that was not read (at most the frame in hand is not yet freed), and
\* when the function has returned as many frames were freed as were read.
C21_EveryFrameFreedOnce ==
    /\ run.nFreed <= run.nRead
    /\ run.nRead <= run.nFreed + 1
    /\ Returned => run.nFreed = run.nRead

\* C22: a load_config() call that read no configuration value (spit.conf
\* missing or invalid, or unchanged on a reload) leaves every static default
\* as it was before the call, the silence threshold included.
C22_NoValuesReadNothingChanged ==
    lastLoad.status \in {"missing", "invalid", "unchanged"} =>
        Dflt = lastLoad.before
====
